---- MODULE Spec2Model ----
(***************************************************************************)
(* Model of chess_model/utils/preprocessing.py: the generator process_game *)
(* (the Game Chunker) and prepare_training_data (the Dataset Splitter).    *)
(*                                                                         *)
(* A string is a sequence of one-character strings.  A file is a sequence  *)
(* of lines.  Two specifications share the definitions of the chunker:     *)
(*   SpecGame  drives one process_game generator over every game string    *)
(*             of bounded length and every max_context_length;             *)
(*   Spec      runs prepare_training_data over every bounded input file.   *)
(***************************************************************************)
EXTENDS Integers, Sequences, FiniteSets

VARIABLES
    input,               \* the input path: Missing, or a file and its lines
    max_context_length,  \* argument of both functions
    validation_split,    \* argument, in units of 1/SplitDenom
    pc,                  \* position of prepare_training_data
    err,                 \* the exception that ended it, or NoErr
    trainHandle,         \* train_outfile: "unopened" | "open" | "closed"
    valHandle,           \* val_outfile
    countHandle,         \* the anonymous open(...) of line 44
    inHandle,            \* infile
    trainDisk,           \* lines of the training file on disk
    valDisk,             \* lines of the validation file on disk
    trainBuf,            \* lines written to train_outfile and not flushed yet
    valBuf,              \* lines written to val_outfile and not flushed yet
    total_lines,         \* result of the pre-count (progress bar only)
    lineIdx,             \* 1-based index of the line the for loop is at
    gen,                 \* the process_game generator being iterated, or NoGen
    emitted,             \* history: every example a generator yielded, in order
    yielded              \* SpecGame history: [i, row] of each yield of gen

vars == <<input, max_context_length, validation_split, pc, err, trainHandle,
          valHandle, countHandle, inHandle, trainDisk, valDisk, trainBuf,
          valBuf, total_lines, lineIdx, gen, emitted, yielded>>

fileVars == <<input, validation_split, pc, err, trainHandle, valHandle,
              countHandle, inHandle, trainDisk, valDisk, trainBuf, valBuf,
              total_lines, lineIdx, emitted>>

-----------------------------------------------------------------------------
(* Bounds *)

\* longest game string of SpecGame
MaxGameLen == 7

\* largest max_context_length (the smallest is -1)
MaxN == 4

\* most tokens on one input line of Spec
MaxTokens == 3

\* most lines in the input file of Spec
MaxLines == 2

\* validation_split and the random draws are multiples of 1/SplitDenom
SplitDenom == 2

-----------------------------------------------------------------------------
(* Strings *)

SP == " "

NL == "\n"

\* a byte the text decoder rejects
BadByte == "\\xff"

\* what str.split() and str.strip() treat as whitespace
Whitespace == {SP, NL}

Min(a, b) == IF a < b THEN a ELSE b

StringsOver(chars, n) == UNION {[1..k -> chars] : k \in 0..n}

RECURSIVE LStrip(_)
LStrip(s) ==
    IF s # <<>> /\ Head(s) \in Whitespace THEN LStrip(Tail(s)) ELSE s

RECURSIVE RStrip(_)
RStrip(s) ==
    IF s # <<>> /\ s[Len(s)] \in Whitespace
    THEN RStrip(SubSeq(s, 1, Len(s) - 1))
    ELSE s

\* line.strip()
Strip(s) == RStrip(LStrip(s))

RECURSIVE SplitRec(_, _, _, _)
SplitRec(s, k, cur, acc) ==
    IF k > Len(s)
    THEN IF cur = <<>> THEN acc ELSE Append(acc, cur)
    ELSE IF s[k] \in Whitespace
         THEN SplitRec(s, k + 1, <<>>, IF cur = <<>> THEN acc ELSE Append(acc, cur))
         ELSE SplitRec(s, k + 1, Append(cur, s[k]), acc)

\* game.split(): the maximal runs of non-whitespace characters, in order
Split(s) == SplitRec(s, 1, <<>>, <<>>)

RECURSIVE Join(_)
\* " ".join(tokens)
Join(tokens) ==
    IF tokens = <<>> THEN <<>>
    ELSE IF Len(tokens) = 1 THEN tokens[1]
    ELSE tokens[1] \o <<SP>> \o Join(Tail(tokens))

\* next_move.endswith("#")
EndsWithHash(s) == s # <<>> /\ s[Len(s)] = "#"

ContainsHash(s) == \E k \in 1..Len(s) : s[k] = "#"

-----------------------------------------------------------------------------
(* process_game *)

NoGen == [state |-> "none"]

\* process_game(game, max_context_length): a generator object; no line of the
\* body runs before the first next()
NewGen(game) ==
    [state |-> "created", game |-> game, moves |-> <<>>, outcome |-> <<>>, i |-> 0]

RaisesOnLoneOutcome(tokens) == Len(tokens) <= 1

\* outcome = moves[-1] raises IndexError on an empty list
Raises(tokens) == tokens = <<>>

\* moves = moves[:-1]
Moves(tokens) == SubSeq(tokens, 1, Len(tokens) - 1)

LoopBoundNoCap(moves, n) == Len(moves)

\* range(min(len(moves), max_context_length))
LoopBound(moves, n) == Min(Len(moves), n)

ContextInclusive(moves, i) == Join(SubSeq(moves, 1, i + 1))

\* " ".join(moves[:i]), i counted from 0
Context(moves, i) == Join(SubSeq(moves, 1, i))

\* moves[i], i counted from 0
NextMove(moves, i) == moves[i + 1]

IsCheckmateAnywhere(next_move) == IF ContainsHash(next_move) THEN <<"1">> ELSE <<"0">>

\* "1" if next_move.endswith("#") else "0"
IsCheckmate(next_move) == IF EndsWithHash(next_move) THEN <<"1">> ELSE <<"0">>

OutcomeOnLastEmitted(moves, outcome, i, n) ==
    IF i = Min(Len(moves), n) - 1 THEN outcome ELSE <<>>

\* the outcome only when i == len(moves) - 1
OutcomeField(moves, outcome, i, n) ==
    IF i = Len(moves) - 1 THEN outcome ELSE <<>>

\* the tuple yielded at position i
Example(moves, outcome, i, n) ==
    <<Context(moves, i), NextMove(moves, i), IsCheckmate(NextMove(moves, i)),
      OutcomeField(moves, outcome, i, n)>>

\* the for statement at position i: suspend at the yield, or fall off the end
LoopFrom(g, i, n) ==
    IF i < LoopBound(g.moves, n)
    THEN [g EXCEPT !.state = "suspended", !.i = i]
    ELSE [g EXCEPT !.state = "exhausted"]

\* next(g): run the body up to the next yield, the end, or an exception
Resume(g, n) ==
    IF g.state = "created"
    THEN LET tokens == Split(g.game) IN
         IF Raises(tokens)
         THEN [g EXCEPT !.state = "raised"]
         ELSE LoopFrom([g EXCEPT !.moves = Moves(tokens),
                                 !.outcome = tokens[Len(tokens)]], 0, n)
    ELSE LoopFrom(g, g.i + 1, n)

\* the value next(g) returned, when it left g suspended
Yielded(g, n) == Example(g.moves, g.outcome, g.i, n)

Live(g) == g.state \in {"created", "suspended"}

-----------------------------------------------------------------------------
(* SpecGame: one generator, every game string, every max_context_length *)

GameChars == {"a", "#", SP}

\* an input path that names no file
Missing == [exists |-> FALSE, lines |-> <<>>]

\* an input path that names a file of these lines
FileOf(lines) == [exists |-> TRUE, lines |-> lines]

NoErr == "none"

Stale == <<<<"o", "l", "d">>>>

FileIdle ==
    /\ input = Missing
    /\ validation_split = 0
    /\ pc = "idle"
    /\ err = NoErr
    /\ trainHandle = "unopened"
    /\ valHandle = "unopened"
    /\ countHandle = "unopened"
    /\ inHandle = "unopened"
    /\ trainDisk = Stale
    /\ valDisk = Stale
    /\ trainBuf = <<>>
    /\ valBuf = <<>>
    /\ total_lines = 0
    /\ lineIdx = 0
    /\ emitted = <<>>

InitGame ==
    /\ FileIdle
    /\ max_context_length \in -1..MaxN
    /\ gen \in {NewGen(game) : game \in StringsOver(GameChars, MaxGameLen)}
    /\ yielded = <<>>

GameYield ==
    /\ Live(gen)
    /\ Resume(gen, max_context_length).state = "suspended"
    /\ gen' = Resume(gen, max_context_length)
    /\ yielded' = Append(yielded, [i |-> gen'.i, row |-> Yielded(gen', max_context_length)])
    /\ UNCHANGED <<fileVars, max_context_length>>

GameStop ==
    /\ Live(gen)
    /\ Resume(gen, max_context_length).state = "exhausted"
    /\ gen' = Resume(gen, max_context_length)
    /\ UNCHANGED <<fileVars, max_context_length, yielded>>

GameRaise ==
    /\ Live(gen)
    /\ Resume(gen, max_context_length).state = "raised"
    /\ gen' = Resume(gen, max_context_length)
    /\ UNCHANGED <<fileVars, max_context_length, yielded>>

NextGame == GameYield \/ GameStop \/ GameRaise

SpecGame == InitGame /\ [][NextGame]_vars

-----------------------------------------------------------------------------
(* prepare_training_data *)

\* the lines an input file is made of: k "a" tokens separated by single
\* spaces (none: an empty line), a whitespace-only line, an undecodable line
TokensLine(k) == Join([j \in 1..k |-> <<"a">>]) \o <<NL>>

BlankLine == <<SP, NL>>

BadLine == <<BadByte, NL>>

InputLines == {TokensLine(k) : k \in 0..MaxTokens} \cup {BlankLine, BadLine}

Files == UNION {[1..k -> InputLines] : k \in 0..MaxLines}

\* the text decoder raises UnicodeDecodeError on such a line
Decodable(line) == \A k \in 1..Len(line) : line[k] # BadByte

\* csv.writer(...).writerow(row) formats a row whose fields hold no comma,
\* quote or line break as the fields joined by commas
CsvLine(row) == row[1] \o <<",">> \o row[2] \o <<",">> \o row[3] \o <<",">> \o row[4]

\* headers = ["context", "next_move", "is_checkmate", "outcome"]
headers == << <<"context">>, <<"next_move">>, <<"is_checkmate">>, <<"outcome">> >>

\* writerow appends to the file object's buffer; inputs this small never
\* fill it, so nothing reaches the disk before the handle is closed
WriteRow(buf, row) == Append(buf, CsvLine(row))

OpenForAppend(disk) == disk

\* open(path, "w") truncates the file
OpenForWrite(disk) == <<>>

\* leaving the with block closes the handle, which flushes its buffer
CloseFile(disk, buf) == disk \o buf

ValGetsInclusive(r, p) == r <= p

\* if random.random() < validation_split: val_writer.writerow(row)
ValGets(r, p) == r < p

TrainGetsAlways(r, p) == TRUE

\* else: train_writer.writerow(row)
TrainGets(r, p) == ~(r < p)

\* __exit__ of the outer with statement, both items entered
ExitOutputs ==
    /\ trainHandle' = "closed"
    /\ valHandle' = "closed"
    /\ trainDisk' = CloseFile(trainDisk, trainBuf)
    /\ valDisk' = CloseFile(valDisk, valBuf)
    /\ trainBuf' = <<>>
    /\ valBuf' = <<>>

Init ==
    /\ input \in {Missing} \cup {FileOf(f) : f \in Files}
    /\ max_context_length \in -1..MaxN
    /\ validation_split \in 0..SplitDenom
    /\ pc = "start"
    /\ err = NoErr
    /\ trainHandle = "unopened"
    /\ valHandle = "unopened"
    /\ countHandle = "unopened"
    /\ inHandle = "unopened"
    /\ trainDisk = Stale
    /\ valDisk = Stale
    /\ trainBuf = <<>>
    /\ valBuf = <<>>
    /\ total_lines = 0
    /\ lineIdx = 0
    /\ gen = NoGen
    /\ emitted = <<>>
    /\ yielded = <<>>

\* open(output_training_data_file, "w", newline="")
OpenTrain ==
    /\ pc = "start"
    /\ trainHandle' = "open"
    /\ trainDisk' = OpenForWrite(trainDisk)
    /\ pc' = "open_val"
    /\ UNCHANGED <<input, max_context_length, validation_split, err, valHandle,
                   countHandle, inHandle, valDisk, trainBuf, valBuf, total_lines,
                   lineIdx, gen, emitted, yielded>>

\* the training path is unwritable
OpenTrainFails ==
    /\ pc = "start"
    /\ pc' = "failed"
    /\ err' = "OSError"
    /\ UNCHANGED <<input, max_context_length, validation_split, trainHandle,
                   valHandle, countHandle, inHandle, trainDisk, valDisk, trainBuf,
                   valBuf, total_lines, lineIdx, gen, emitted, yielded>>

\* open(output_validation_data_file, "w", newline="")
OpenVal ==
    /\ pc = "open_val"
    /\ valHandle' = "open"
    /\ valDisk' = OpenForWrite(valDisk)
    /\ pc' = "headers"
    /\ UNCHANGED <<input, max_context_length, validation_split, err, trainHandle,
                   countHandle, inHandle, trainDisk, trainBuf, valBuf, total_lines,
                   lineIdx, gen, emitted, yielded>>

\* the validation path is unwritable: the with statement exits train_outfile
OpenValFails ==
    /\ pc = "open_val"
    /\ pc' = "failed"
    /\ err' = "OSError"
    /\ trainHandle' = "closed"
    /\ trainDisk' = CloseFile(trainDisk, trainBuf)
    /\ trainBuf' = <<>>
    /\ UNCHANGED <<input, max_context_length, validation_split, valHandle,
                   countHandle, inHandle, valDisk, valBuf, total_lines, lineIdx,
                   gen, emitted, yielded>>

\* train_writer.writerow(headers); val_writer.writerow(headers)
WriteHeaders ==
    /\ pc = "headers"
    /\ trainBuf' = WriteRow(trainBuf, headers)
    /\ valBuf' = WriteRow(valBuf, headers)
    /\ pc' = "count"
    /\ UNCHANGED <<input, max_context_length, validation_split, err, trainHandle,
                   valHandle, countHandle, inHandle, trainDisk, valDisk,
                   total_lines, lineIdx, gen, emitted, yielded>>

\* open(input_reduced_pgn_file, "r") raises FileNotFoundError
CountMissing ==
    /\ pc = "count"
    /\ ~input.exists
    /\ pc' = "failed"
    /\ err' = "FileNotFoundError"
    /\ ExitOutputs
    /\ UNCHANGED <<input, max_context_length, validation_split, countHandle,
                   inHandle, total_lines, lineIdx, gen, emitted, yielded>>

\* the pre-count meets a line it cannot decode: the exception leaves the
\* function while its traceback still holds the file object, which nothing closes
CountRaises ==
    /\ pc = "count"
    /\ input.exists
    /\ \E k \in 1..Len(input.lines) : ~Decodable(input.lines[k])
    /\ countHandle' = "open"
    /\ pc' = "failed"
    /\ err' = "UnicodeDecodeError"
    /\ ExitOutputs
    /\ UNCHANGED <<input, max_context_length, validation_split, inHandle,
                   total_lines, lineIdx, gen, emitted, yielded>>

\* total_lines = sum(1 for _ in open(input_reduced_pgn_file, "r")): the file
\* object is dropped, never closed; whether the runtime has finalized it by the
\* time the function ends is the runtime's choice
CountLines ==
    /\ pc = "count"
    /\ input.exists
    /\ \A k \in 1..Len(input.lines) : Decodable(input.lines[k])
    /\ total_lines' = Len(input.lines)
    /\ \E finalized \in BOOLEAN :
          countHandle' = IF finalized THEN "closed" ELSE "open"
    /\ pc' = "open_in"
    /\ UNCHANGED <<input, max_context_length, validation_split, err, trainHandle,
                   valHandle, inHandle, trainDisk, valDisk, trainBuf, valBuf,
                   lineIdx, gen, emitted, yielded>>

\* with open(input_reduced_pgn_file, "r") as infile
OpenInfile ==
    /\ pc = "open_in"
    /\ inHandle' = "open"
    /\ lineIdx' = 1
    /\ pc' = "loop"
    /\ UNCHANGED <<input, max_context_length, validation_split, err, trainHandle,
                   valHandle, countHandle, trainDisk, valDisk, trainBuf, valBuf,
                   total_lines, gen, emitted, yielded>>

\* for line in infile: game = line.strip(); process_game(game, ...) is called
ReadLine ==
    /\ pc = "loop"
    /\ gen = NoGen
    /\ lineIdx <= Len(input.lines)
    /\ gen' = NewGen(Strip(input.lines[lineIdx]))
    /\ UNCHANGED <<input, max_context_length, validation_split, pc, err,
                   trainHandle, valHandle, countHandle, inHandle, trainDisk,
                   valDisk, trainBuf, valBuf, total_lines, lineIdx, emitted, yielded>>

\* the inner for gets an example; one random draw routes its row
ForYield ==
    /\ pc = "loop"
    /\ Live(gen)
    /\ Resume(gen, max_context_length).state = "suspended"
    /\ gen' = Resume(gen, max_context_length)
    /\ \E r \in 0..(SplitDenom - 1) :
          LET row == Yielded(gen', max_context_length) IN
          /\ valBuf' = IF ValGets(r, validation_split)
                       THEN WriteRow(valBuf, row) ELSE valBuf
          /\ trainBuf' = IF TrainGets(r, validation_split)
                         THEN WriteRow(trainBuf, row) ELSE trainBuf
          /\ emitted' = Append(emitted, row)
    /\ UNCHANGED <<input, max_context_length, validation_split, pc, err,
                   trainHandle, valHandle, countHandle, inHandle, trainDisk,
                   valDisk, total_lines, lineIdx, yielded>>

\* the generator is exhausted: on to the next line
ForStop ==
    /\ pc = "loop"
    /\ Live(gen)
    /\ Resume(gen, max_context_length).state = "exhausted"
    /\ gen' = NoGen
    /\ lineIdx' = lineIdx + 1
    /\ UNCHANGED <<input, max_context_length, validation_split, pc, err,
                   trainHandle, valHandle, countHandle, inHandle, trainDisk,
                   valDisk, trainBuf, valBuf, total_lines, emitted, yielded>>

\* the generator raises IndexError: both with statements exit
ForRaise ==
    /\ pc = "loop"
    /\ Live(gen)
    /\ Resume(gen, max_context_length).state = "raised"
    /\ gen' = Resume(gen, max_context_length)
    /\ pc' = "failed"
    /\ err' = "IndexError"
    /\ inHandle' = "closed"
    /\ ExitOutputs
    /\ UNCHANGED <<input, max_context_length, validation_split, countHandle,
                   total_lines, lineIdx, emitted, yielded>>

\* the input is exhausted: both with statements exit
Finish ==
    /\ pc = "loop"
    /\ gen = NoGen
    /\ lineIdx > Len(input.lines)
    /\ pc' = "done"
    /\ inHandle' = "closed"
    /\ ExitOutputs
    /\ UNCHANGED <<input, max_context_length, validation_split, err, countHandle,
                   total_lines, lineIdx, gen, emitted, yielded>>

Next ==
    \/ OpenTrain
    \/ OpenTrainFails
    \/ OpenVal
    \/ OpenValFails
    \/ WriteHeaders
    \/ CountMissing
    \/ CountRaises
    \/ CountLines
    \/ OpenInfile
    \/ ReadLine
    \/ ForYield
    \/ ForStop
    \/ ForRaise
    \/ Finish

Spec == Init /\ [][Next]_vars

-----------------------------------------------------------------------------
(* What the claims speak of, stated apart from the code's own steps *)

\* the tokens of a record: its maximal runs of non-whitespace characters
TokenSpans(s) ==
    {sp \in (1..Len(s)) \X (1..Len(s)) :
        /\ sp[1] <= sp[2]
        /\ \A k \in sp[1]..sp[2] : s[k] \notin Whitespace
        /\ (sp[1] = 1 \/ s[sp[1] - 1] \in Whitespace)
        /\ (sp[2] = Len(s) \/ s[sp[2] + 1] \in Whitespace)}

NumTokens(s) == Cardinality(TokenSpans(s))

\* the k-th token, k counted from 1
TokenAt(s, k) ==
    LET sp == CHOOSE t \in TokenSpans(s) :
                  Cardinality({u \in TokenSpans(s) : u[1] < t[1]}) = k - 1
    IN SubSeq(s, sp[1], sp[2])

\* M: the tokens before the outcome token
NumMoves(s) == NumTokens(s) - 1

AllBlank(s) == \A k \in 1..Len(s) : s[k] \in Whitespace

Count(seq, x) == Cardinality({k \in DOMAIN seq : seq[k] = x})

\* a file's data rows: everything after its header row
DataRows(file) == IF file = <<>> THEN <<>> ELSE Tail(file)

RECURSIVE ExpectedRows(_, _)
\* how many examples the lines hold: min(M, N) per line, none below zero
ExpectedRows(lines, n) ==
    IF lines = <<>> THEN 0
    ELSE LET m == Min(NumMoves(lines[1]), n) IN
         (IF m > 0 THEN m ELSE 0) + ExpectedRows(Tail(lines), n)

Terminal == pc \in {"done", "failed"}

Header == <<"context", ",", "next_move", ",", "is_checkmate", ",", "outcome">>

-----------------------------------------------------------------------------
(* Claims *)

\* C1: after prepare_training_data completes normally, the data rows of the
\* training file and of the validation file together are, as a multiset,
\* exactly the examples process_game emitted over all input lines: each
\* example is a row of exactly one file, none is lost or duplicated.
C1_EveryExampleInExactlyOneFile ==
    pc = "done" =>
        /\ trainDisk # <<>> /\ valDisk # <<>>
        /\ Len(emitted) = ExpectedRows(input.lines, max_context_length)
        /\ Len(DataRows(trainDisk)) + Len(DataRows(valDisk)) = Len(emitted)
        /\ \A k \in DOMAIN emitted :
              Count(DataRows(trainDisk), CsvLine(emitted[k]))
                + Count(DataRows(valDisk), CsvLine(emitted[k]))
              = Count([j \in DOMAIN emitted |-> CsvLine(emitted[j])], CsvLine(emitted[k]))

C1_Witness ==
    /\ pc = "done"
    /\ Len(emitted) >= 3
    /\ Len(DataRows(trainDisk)) >= 1
    /\ Len(DataRows(valDisk)) >= 1
    /\ \E j, k \in DOMAIN emitted : j # k /\ emitted[j] = emitted[k]

\* C2: for a record of M >= 0 moves and one outcome token and N >= 0,
\* process_game emits one example per position 0, 1, ..., min(M, N) - 1 in
\* that order, min(M, N) in all, and then ends.
C2_EmitsMinMN ==
    (max_context_length >= 0 /\ NumTokens(gen.game) >= 1) =>
        LET bound == Min(NumMoves(gen.game), max_context_length) IN
        /\ \A k \in DOMAIN yielded : yielded[k].i = k - 1
        /\ Len(yielded) <= bound
        /\ gen.state = "exhausted" => Len(yielded) = bound
        /\ gen.state = "suspended" => ENABLED NextGame

C2_Witness ==
    /\ gen.state = "exhausted"
    /\ max_context_length >= 2
    /\ NumMoves(gen.game) > max_context_length
    /\ Len(yielded) = max_context_length

\* C3: for a record of M >= 1 moves, the outcome field is non-empty in exactly
\* one emitted example, the one at position M - 1, where it is the record's
\* last token, if and only if N >= M; when N < M every emitted example has an
\* empty outcome field.
C3_OutcomeOnlyOnLastMove ==
    (gen.state \in {"suspended", "exhausted"} /\ NumMoves(gen.game) >= 1) =>
        LET M == NumMoves(gen.game)
            carrying == {k \in DOMAIN yielded : yielded[k].row[4] # <<>>}
        IN /\ carrying \subseteq {M}
           /\ \A k \in carrying : yielded[k].row[4] = TokenAt(gen.game, M + 1)
           /\ gen.state = "exhausted" =>
                 IF max_context_length >= M THEN carrying = {M} ELSE carrying = {}

C3_Witness ==
    /\ gen.state = "exhausted"
    /\ NumMoves(gen.game) >= 2
    /\ max_context_length > NumMoves(gen.game)
    /\ yielded[NumMoves(gen.game)].row[4] # <<>>

\* C4: at every emitted position i, next_move is the i-th move token of the
\* record, and context is the first i move tokens in order joined by single
\* spaces: empty at i = 0, and afterwards the previous context extended by the
\* previous next_move. Only move tokens are used, never the outcome token.
C4_ContextIsPrefix ==
    /\ Len(yielded) > 0 => Len(yielded) <= NumMoves(gen.game)
    /\ \A k \in DOMAIN yielded :
          /\ yielded[k].row[2] = TokenAt(gen.game, k)
          /\ yielded[k].row[1] =
                IF k = 1 THEN <<>>
                ELSE IF k = 2 THEN yielded[1].row[2]
                ELSE yielded[k - 1].row[1] \o <<SP>> \o yielded[k - 1].row[2]

C4_Witness ==
    /\ Len(yielded) = 3
    /\ yielded[1].row[2] # yielded[2].row[2]
    /\ yielded[3].row[1] = yielded[1].row[2] \o <<SP>> \o yielded[2].row[2]

\* C5: in every emitted example is_checkmate is "1" if the last character of
\* next_move is '#', and "0" otherwise, wherever else a '#' occurs.
C5_CheckmateIsLastChar ==
    \A k \in DOMAIN yielded :
        LET move == yielded[k].row[2] IN
        yielded[k].row[3] = IF move[Len(move)] = "#" THEN <<"1">> ELSE <<"0">>

C5_Witness ==
    /\ \E k \in DOMAIN yielded :
          yielded[k].row[2] = <<"#", "a">> /\ yielded[k].row[3] = <<"0">>
    /\ \E k \in DOMAIN yielded :
          yielded[k].row[2] = <<"a", "#">> /\ yielded[k].row[3] = <<"1">>

\* C6: with validation_split = 0 the validation file holds no data row, and
\* with validation_split = 1 the training file holds none, whatever the
\* random draws.
C6_SplitExtremes ==
    Terminal =>
        /\ validation_split = 0 => Len(DataRows(valDisk)) = 0
        /\ validation_split = SplitDenom => Len(DataRows(trainDisk)) = 0

C6_Witness ==
    /\ pc = "done"
    /\ validation_split = SplitDenom
    /\ Len(DataRows(valDisk)) >= 2
    /\ Len(DataRows(trainDisk)) = 0

\* C7: a line that is empty after trimming is skipped: the operation does
\* not fail on it.
C7_BlankLineSkipped ==
    ~(/\ pc = "failed"
      /\ inHandle # "unopened"
      /\ lineIdx \in 1..Len(input.lines)
      /\ AllBlank(input.lines[lineIdx]))

\* C8: when the operation has ended, normally or by a failure, no file handle
\* it opened is still open.
C8_AllHandlesReleased ==
    Terminal =>
        /\ trainHandle # "open"
        /\ valHandle # "open"
        /\ countHandle # "open"
        /\ inHandle # "open"

\* C9: the first next() on a record with no token raises and no example is
\* emitted; a record with at least one token never raises.
C9_RaisesIffNoToken ==
    /\ gen.state = "raised" => AllBlank(gen.game) /\ yielded = <<>>
    /\ (AllBlank(gen.game) /\ gen.state # "created") => gen.state = "raised"

C9_Witness ==
    /\ gen.state = "raised"
    /\ Len(gen.game) >= 2
    /\ yielded = <<>>

\* C10: both output files are opened and given their header row before the
\* input file is first opened; when the input path names no file and both
\* outputs are writable, the operation fails with FileNotFoundError and leaves
\* each output file holding the header row and nothing else.
C10_HeadersBeforeInput ==
    /\ (countHandle # "unopened" \/ inHandle # "unopened") =>
          /\ trainHandle # "unopened" /\ valHandle # "unopened"
          /\ (trainDisk \o trainBuf)[1] = Header
          /\ (valDisk \o valBuf)[1] = Header
    /\ (Terminal /\ ~input.exists /\ err # "OSError") =>
          /\ pc = "failed" /\ err = "FileNotFoundError"
          /\ trainDisk = <<Header>> /\ valDisk = <<Header>>
          /\ countHandle = "unopened" /\ inHandle = "unopened"

C10_Witness ==
    /\ pc = "failed"
    /\ err = "FileNotFoundError"
    /\ trainDisk = <<Header>>
    /\ valDisk = <<Header>>

====
